---- MODULE Spec2Model ----
(***************************************************************************)
(* Log parsing, transaction classification, ABI resolution, startup and   *)
(* request handling of the blockchain transaction analyzer.               *)
(*                                                                         *)
(*   Spec      BlockchainService.parseLogs followed by                     *)
(*             analyzeTransactionPattern (the standard path)               *)
(*   SpecABI   ABIFetcher.parseLogsWithABI (the ABI-driven path)           *)
(*   SpecFetch ABIFetcher.fetchABI with its cache and its two sources      *)
(*   SpecService    initProvider, startServer and the analyze request:    *)
(*                  controller, analyzeTransaction, getContractState, AI  *)
(*   SpecConcurrent two fetchABI calls interleaving at their awaits       *)
(*                                                                         *)
(* A 32-byte word is [hi, lo]: hi is the value of its upper 12 bytes, lo   *)
(* the value of its lower 20 bytes.  A padded address has hi = 0; a topic  *)
(* hash has hi # 0.  Strings the code searches (event names) are tuples of *)
(* characters, so that toLowerCase and includes are computed.              *)
(***************************************************************************)
EXTENDS Integers, Sequences, FiniteSets, TLC

\* Longest receipt log sequence explored.
MaxLogs == 2

VARIABLES
    pc,            \* position of the operation under way
    logs,          \* the logs of the receipt iterated so far, in input order
    contractAddress, \* the contractAddress argument of the call
    parsedLogs,    \* parseLogs: the accumulator it returns
    transaction,   \* the transaction handed to analyzeTransactionPattern
    analysis,      \* analyzeTransactionPattern: its result
    abi,           \* parseLogsWithABI: the abi argument
    abiParsed,     \* parseLogsWithABI: the accumulator it returns
    redisUrl,      \* whether REDIS_URL is set
    phase,         \* server.js: "starting" until startServer has run
    dbClient,      \* config/database: the module variable redisClient
    fetcherClient, \* ABIFetcher: this.redisClient, "unloaded" before construction
    store,         \* the content of the Redis server
    now,           \* the clock, in seconds
    ticks,         \* how many times the clock has advanced
    fpc,           \* fetchABI: the await it is suspended at
    call,          \* fetchABI: its argument and its local abi
    trace,         \* fetchABI: the lookups of the call under way, in order
    result,        \* fetchABI: what the last call returned or raised
    rpcUrl,        \* MONAD_RPC_URL || ETHEREUM_RPC_URL
    boot,          \* initProvider: its position, its retries and its waits
    apiKey,        \* whether AI_API_KEY is set
    req,           \* the body of the analyze request under way
    rpos,          \* the await the request handler is suspended at
    work,          \* the locals of the request handler and of the service call
    did,           \* the outbound calls of the request, in order
    response,      \* the response sent for the request
    callers,       \* concurrent fetchABI calls: position and locals of each
    writes         \* concurrent fetchABI calls: the cache writes, in order

parseVars == <<pc, logs, contractAddress, parsedLogs, transaction, analysis, abi, abiParsed>>
fetchVars == <<redisUrl, phase, dbClient, fetcherClient, store, now, ticks, fpc, call,
               trace, result>>
serviceVars == <<rpcUrl, boot, apiKey, req, rpos, work, did, response, callers, writes>>
vars == <<parseVars, fetchVars, serviceVars>>

----------------------------------------------------------------------------
(* Strings *)

sTransfer == <<"T","r","a","n","s","f","e","r">>
sDeposit == <<"D","e","p","o","s","i","t">>
sApproval == <<"A","p","p","r","o","v","a","l">>
sTransferFailed == sTransfer \o <<"F","a","i","l","e","d">>
sPartialTransfer == <<"P","a","r","t","i","a","l">> \o sTransfer
sPartialTransferFailed == sPartialTransfer \o <<"F","a","i","l","e","d">>
sUnknown == <<"U","n","k","n","o","w","n">>

\* the literals parseLogsWithABI searches event names for
lTransfer == <<"t","r","a","n","s","f","e","r">>
lFailed == <<"f","a","i","l","e","d">>
lPartial == <<"p","a","r","t","i","a","l">>

Upper == <<"A","D","F","P","T","U">>
Lower == <<"a","d","f","p","t","u">>

\* String.prototype.toLowerCase, one character
LowerChar(c) ==
    IF \E i \in 1..Len(Upper) : Upper[i] = c
    THEN Lower[CHOOSE i \in 1..Len(Upper) : Upper[i] = c]
    ELSE c

\* String.prototype.toLowerCase
ToLowerCase(s) == [i \in 1..Len(s) |-> LowerChar(s[i])]

\* String.prototype.includes
Includes(s, t) ==
    \E i \in 1..(Len(s) - Len(t) + 1) : SubSeq(s, i, i + Len(t) - 1) = t

----------------------------------------------------------------------------
(* Words, topics and logs *)

Word(hi, lo) == [hi |-> hi, lo |-> lo]
\* two addresses left-padded to 32 bytes
PadA == Word(0, 1)
PadB == Word(0, 2)
\* a 32-byte value whose upper 12 bytes are not zero
Junk == Word(1, 3)
\* a small amount and a token id
Five == Word(0, 5)
TokenId == Word(0, 7)

\* Event fragments: name and ordered inputs
In(type, indexed) == [type |-> type, indexed |-> indexed]
Event(name, inputs) == [name |-> name, inputs |-> inputs]

ERC20_ABI == <<
    Event(sTransfer, <<In("address", TRUE), In("address", TRUE), In("uint256", FALSE)>>),
    Event(sDeposit, <<In("address", TRUE), In("uint256", FALSE)>>) >>

ERC721_ABI == <<
    Event(sTransfer, <<In("address", TRUE), In("address", TRUE), In("uint256", TRUE)>>) >>

\* Two ABI documents of custom contracts, as an explorer serves them
VerifiedABI == <<
    Event(sTransferFailed, <<In("address", TRUE), In("address", TRUE),
                             In("uint256", FALSE), In("uint256", FALSE)>>),
    Event(sPartialTransfer, <<In("address", TRUE), In("address", TRUE),
                              In("uint256", FALSE), In("uint256", FALSE)>>),
    Event(sApproval, <<In("address", TRUE), In("address", TRUE), In("uint256", FALSE)>>) >>

TokenABI == <<
    Event(sTransfer, <<In("address", TRUE), In("address", TRUE), In("uint256", FALSE)>>),
    Event(sPartialTransferFailed, <<In("address", TRUE), In("address", TRUE),
                                    In("uint256", FALSE), In("uint256", FALSE)>>) >>

\* The canonical signature the topic hash is taken of: name and types, not
\* the indexed flags.
Signature(ev) == <<ev.name, [i \in 1..Len(ev.inputs) |-> ev.inputs[i].type]>>

KnownSignatures == <<
    <<sTransfer, <<"address", "address", "uint256">> >>,
    <<sDeposit, <<"address", "uint256">> >>,
    <<sApproval, <<"address", "address", "uint256">> >>,
    <<sTransferFailed, <<"address", "address", "uint256", "uint256">> >>,
    <<sPartialTransfer, <<"address", "address", "uint256", "uint256">> >>,
    <<sPartialTransferFailed, <<"address", "address", "uint256", "uint256">> >> >>

\* keccak256 of the signature: injective on the signatures in use
Id(sig) == Word(1, 100 + (CHOOSE i \in 1..Len(KnownSignatures) : KnownSignatures[i] = sig))

TopicHash(ev) == Id(Signature(ev))

----------------------------------------------------------------------------
(* ethers.Interface.parseLog *)

Null == [kind |-> "null"]
Thrown == [kind |-> "throw"]
LogDescription(name, args) == [kind |-> "ok", name |-> name, args |-> args]

\* Interface.getEvent by topic hash: the index of the first fragment with
\* that topic hash, 0 when there is none
GetEvent(iface, key) ==
    IF \E i \in 1..Len(iface) : TopicHash(iface[i]) = key
    THEN CHOOSE i \in 1..Len(iface) :
            /\ TopicHash(iface[i]) = key
            /\ \A j \in 1..(i - 1) : TopicHash(iface[j]) # key
    ELSE 0

IndexedUpTo(ev, i) == Cardinality({j \in 1..i : ev.inputs[j].indexed})
NonIndexedUpTo(ev, i) == Cardinality({j \in 1..i : ~ev.inputs[j].indexed})

\* One decoded value.  An address whose upper 12 bytes are not zero decodes
\* to an error that is raised when the value is read.
DecodeValue(type, w) == [ok |-> (type = "address" => w.hi = 0), v |-> w]

\* Interface.decodeEventLog: the indexed inputs are read from topics[1..],
\* the others from data; too few topics or too little data throws.
DecodeEventLog(ev, log) ==
    LET topics == Tail(log.topics)
        n == Len(ev.inputs)
    IN  IF \/ Len(topics) < IndexedUpTo(ev, n)
           \/ Len(log.data) < NonIndexedUpTo(ev, n)
        THEN Thrown
        ELSE LogDescription(ev.name,
                [i \in 1..n |->
                    IF ev.inputs[i].indexed
                    THEN DecodeValue(ev.inputs[i].type, topics[IndexedUpTo(ev, i)])
                    ELSE DecodeValue(ev.inputs[i].type, log.data[NonIndexedUpTo(ev, i)])])

\* Interface.parseLog: null when no event of the interface has the topic
\* hash of the log; throws when the log has no topics[0] to look up.
ParseLog(iface, log) ==
    IF ~log.hasTopics \/ Len(log.topics) = 0
    THEN Thrown
    ELSE LET k == GetEvent(iface, log.topics[1])
         IN  IF k = 0 THEN Null ELSE DecodeEventLog(iface[k], log)

\* .toString() of a decoded value: its text, no longer the value
ValueToString(v) == [text |-> v]

\* reading args[1..n] of a description raises if one of them is an error
ArgsOk(d, n) == \A i \in 1..n : d.args[i].ok

----------------------------------------------------------------------------
(* ABIFetcher: documents, cache and explorers *)

\* Seconds an ABI stays cached
CACHE_TTL == 86400

\* How many times the clock advances
MaxTicks == 2

\* null, and an ABI document
Absent == [present |-> FALSE, doc |-> <<>>]
Found(doc) == [present |-> TRUE, doc |-> doc]

Docs == {VerifiedABI, TokenABI}

\* Texts: the JSON text of a document, and two texts that are not JSON
JSONText(doc) == [raw |-> "json", valid |-> TRUE, doc |-> doc]
NotVerified == [raw |-> "Contract source code not verified", valid |-> FALSE, doc |-> <<>>]
Garbage == [raw |-> "<html>", valid |-> FALSE, doc |-> <<>>]

Return(v) == [threw |-> FALSE, value |-> v]
Raise == [threw |-> TRUE, value |-> Absent]

JSONStringify(doc) == JSONText(doc)
\* JSON.parse raises on a text that is not JSON
JSONParse(text) == IF text.valid THEN Return(Found(text.doc)) ELSE Raise

\* Contract addresses as the caller writes them: one in two letter cases
Addresses == {<<"0","x","A","d">>, <<"0","x","a","d">>, <<"0","x","f","f">>}

\* `abi:${contractAddress.toLowerCase()}`
CacheKey(address) == <<"a","b","i",":">> \o ToLowerCase(address)

Keys == {CacheKey(a) : a \in Addresses}

NoEntry == [present |-> FALSE, json |-> Garbage, expires |-> 0]

\* redisClient.get: the text under the key unless it has expired
RedisGet(st, t, key) ==
    IF st[key].present /\ t < st[key].expires THEN st[key] ELSE NoEntry

\* redisClient.setEx
RedisSetEx(st, t, key, ttl, text) ==
    [st EXCEPT ![key] = [present |-> TRUE, json |-> text, expires |-> t + ttl]]

\* What MonadScan answers: a network error, or a body with status and result
ScanResponses ==
    {[kind |-> "error", status |-> "0", result |-> Garbage],
     [kind |-> "ok", status |-> "0", result |-> NotVerified],
     [kind |-> "ok", status |-> "1", result |-> NotVerified],
     [kind |-> "ok", status |-> "1", result |-> Garbage]}
    \cup {[kind |-> "ok", status |-> "1", result |-> JSONText(d)] : d \in Docs}

\* What MonadExplorer answers: a network error, or a body with or without abi
ExplorerResponses ==
    {[kind |-> "error", abi |-> Absent], [kind |-> "ok", abi |-> Absent]}
    \cup {[kind |-> "ok", abi |-> Found(d)] : d \in Docs}

\* fetchFromMonadScan with no catch around the request
FetchFromMonadScanNoCatch(resp) ==
    IF resp.kind = "error" THEN Raise
    ELSE IF resp.status = "1" /\ resp.result.raw # NotVerified.raw
    THEN JSONParse(resp.result)
    ELSE Return(Absent)

\* fetchFromMonadScan: every raise inside it is caught and answered null
FetchFromMonadScan(resp) ==
    IF resp.kind = "error" THEN Return(Absent)
    ELSE IF resp.status = "1" /\ resp.result.raw # NotVerified.raw
    THEN IF JSONParse(resp.result).threw
         THEN Return(Absent)
         ELSE JSONParse(resp.result)
    ELSE Return(Absent)

\* fetchFromMonadExplorer
FetchFromMonadExplorer(resp) ==
    IF resp.kind = "error" THEN Return(Absent)
    ELSE IF resp.abi.present THEN Return(resp.abi)
    ELSE Return(Absent)

\* getCachedABI: null without a client; a raise of the client or of
\* JSON.parse is caught and answered null
GetCachedABI(client, st, t, address, redisOk) ==
    IF client = "null" THEN Return(Absent)
    ELSE IF ~redisOk THEN Return(Absent)
    ELSE IF RedisGet(st, t, CacheKey(address)).present
    THEN IF JSONParse(RedisGet(st, t, CacheKey(address)).json).threw
         THEN Return(Absent)
         ELSE JSONParse(RedisGet(st, t, CacheKey(address)).json)
    ELSE Return(Absent)

\* CacheABI with an entry that exists left as it is
CacheABIKeepFirst(client, st, t, address, doc, redisOk) ==
    IF client = "null" \/ ~redisOk \/ st[CacheKey(address)].present THEN st
    ELSE RedisSetEx(st, t, CacheKey(address), CACHE_TTL, JSONStringify(doc))

\* cacheABI: the store after it; nothing without a client, and a raise of
\* the client is caught
CacheABI(client, st, t, address, doc, redisOk) ==
    IF client = "null" \/ ~redisOk THEN st
    ELSE RedisSetEx(st, t, CacheKey(address), CACHE_TTL, JSONStringify(doc))

\* fetchABI after MonadScan, with MonadExplorer asked whatever it answered
AfterMonadScanAskBoth(found) == "monadExplorer"

\* fetchABI after MonadScan: MonadExplorer is asked only if it found nothing
AfterMonadScan(found) == IF found.present THEN "cacheABI" ELSE "monadExplorer"

NoCall == [address |-> <<>>, abi |-> Absent, cacheFailed |-> FALSE]

\* The resolver at rest, in the specifications that do not run it
FetchIdle ==
    /\ redisUrl = FALSE
    /\ phase = "starting"
    /\ dbClient = "null"
    /\ fetcherClient = "unloaded"
    /\ store = [k \in Keys |-> NoEntry]
    /\ now = 0
    /\ ticks = 0
    /\ fpc = "idle"
    /\ call = NoCall
    /\ trace = <<>>
    /\ result = Return(Absent)

----------------------------------------------------------------------------
(* Receipt logs *)

Log(topics, data) == [hasTopics |-> TRUE, topics |-> topics, data |-> data]
\* a log object that carries no topics array
Malformed == [hasTopics |-> FALSE, topics |-> <<>>, data |-> <<>>]

TransferTopic == Id(KnownSignatures[1])
DepositTopic == Id(KnownSignatures[2])
ApprovalTopic == Id(KnownSignatures[3])
TransferFailedTopic == Id(KnownSignatures[4])
PartialTransferTopic == Id(KnownSignatures[5])
PartialTransferFailedTopic == Id(KnownSignatures[6])

\* a topic that holds a bare 20-byte address, without padding
Narrow == [hi |-> 0, lo |-> 1, bytes |-> 20]

\* topic.length: '0x' and two characters a byte; a word has 32 bytes
TopicLength(topic) == IF "bytes" \in DOMAIN topic THEN 2 + 2 * topic.bytes ELSE 2 + 2 * 32

\* topics[1..] of the logs explored: none, one, two or three words
ArgTopics ==
    {<<>>} \cup {<<a>> : a \in {PadA, Junk}}
           \cup {<<a, b>> : a \in {PadA, Junk}, b \in {PadB, Junk}}
           \cup {<<a, b, TokenId>> : a \in {PadA, Junk}, b \in {PadB}}

\* The logs the standard path is run on
Logs ==
    {Log(<<t>> \o a, d) : t \in {TransferTopic, DepositTopic}, a \in ArgTopics,
                          d \in {<<>>, <<Five>>}}
    \cup {Log(<<TransferFailedTopic>> \o a, <<Five, Five>>) : a \in ArgTopics}
    \cup {Log(<<TransferFailedTopic, Narrow>>, <<>>)}
    \cup {Log(<<>>, <<>>), Malformed}

WellFormed(log) == log.hasTopics

----------------------------------------------------------------------------
(* BlockchainService.parseLogs *)

\* Set.prototype.add on a set kept in insertion order
SetAdd(s, x) == IF \E i \in 1..Len(s) : s[i] = x THEN s ELSE Append(s, x)

EmptyParsedLogs ==
    [transfers |-> <<>>, deposits |-> <<>>, otherEvents |-> <<>>,
     contractType |-> "Unknown",
     senderAddresses |-> <<>>, receiverAddresses |-> <<>>,
     addressesAre |-> "Set"]

\* The ERC-20 attempt on one log: the accumulator after it and whether the
\* log was parsed.  Every read that can raise comes before the first write.
TryERC20(pl, log, logIndex) ==
    LET d == ParseLog(ERC20_ABI, log)
    IN  IF d.kind = "ok" /\ d.name = sTransfer /\ ArgsOk(d, 3)
        THEN [parsed |-> TRUE,
              pl |-> [pl EXCEPT
                !.transfers = Append(@, [type |-> "ERC20 Transfer",
                                         from |-> d.args[1].v, to |-> d.args[2].v,
                                         value |-> ValueToString(d.args[3].v), logIndex |-> logIndex]),
                !.senderAddresses = SetAdd(@, d.args[1].v),
                !.receiverAddresses = SetAdd(@, d.args[2].v),
                !.contractType = "ERC20"]]
        ELSE IF d.kind = "ok" /\ d.name = sDeposit /\ ArgsOk(d, 2)
        THEN [parsed |-> TRUE,
              pl |-> [pl EXCEPT
                !.deposits = Append(@, [type |-> "Deposit",
                                        from |-> d.args[1].v,
                                        value |-> ValueToString(d.args[2].v), logIndex |-> logIndex]),
                !.senderAddresses = SetAdd(@, d.args[1].v),
                !.contractType = "ERC20"]]
        ELSE [parsed |-> FALSE, pl |-> pl]

\* The ERC-721 attempt on a log the ERC-20 attempt did not parse
TryERC721(pl, log, logIndex) ==
    LET d == ParseLog(ERC721_ABI, log)
    IN  IF d.kind = "ok" /\ d.name = sTransfer /\ ArgsOk(d, 3)
        THEN [parsed |-> TRUE,
              pl |-> [pl EXCEPT
                !.transfers = Append(@, [type |-> "ERC721 Transfer",
                                         from |-> d.args[1].v, to |-> d.args[2].v,
                                         tokenId |-> ValueToString(d.args[3].v), logIndex |-> logIndex]),
                !.senderAddresses = SetAdd(@, d.args[1].v),
                !.receiverAddresses = SetAdd(@, d.args[2].v),
                !.contractType = "ERC721"]]
        ELSE [parsed |-> FALSE, pl |-> pl]

\* ethers.getAddress('0x' + topic.slice(26)): the lower 20 bytes of the topic
TopicAddress(topic) == Word(0, topic.lo)

RECURSIVE ExtractAddresses(_, _, _)
\* The loop over topics[1..] of an unparsed log, from position i (0-based):
\* of the topics that are 66 characters long, topics[1] goes to the senders
\* and topics[2] to the receivers
ExtractAddresses(pl, topics, i) ==
    IF i >= Len(topics) THEN pl
    ELSE ExtractAddresses(
            IF TopicLength(topics[i + 1]) # 66 THEN pl
            ELSE IF i = 1 THEN [pl EXCEPT !.senderAddresses = SetAdd(@, TopicAddress(topics[i + 1]))]
            ELSE IF i = 2 THEN [pl EXCEPT !.receiverAddresses = SetAdd(@, TopicAddress(topics[i + 1]))]
            ELSE pl,
            topics, i + 1)

\* The raw-event fallback of a log no schema parsed
Fallback(pl, log, logIndex) ==
    [ExtractAddresses(pl, log.topics, 1) EXCEPT
        !.otherEvents = Append(@, [type |-> "Unknown Event", topics |-> log.topics,
                                   data |-> log.data, logIndex |-> logIndex])]

\* ParseOne without the guard of the raw-event fallback
ParseOneAlwaysRaw(pl, log, logIndex) ==
    LET a == TryERC20(pl, log, logIndex)
        b == IF a.parsed THEN a ELSE TryERC721(a.pl, log, logIndex)
    IN  Fallback(b.pl, log, logIndex)

\* ParseOne without the guard of the ERC-721 attempt
ParseOneBothSchemas(pl, log, logIndex) ==
    LET a == TryERC20(pl, log, logIndex)
        b == TryERC721(a.pl, log, logIndex)
    IN  IF a.parsed \/ b.parsed THEN b.pl ELSE Fallback(b.pl, log, logIndex)

\* ParseOne with contractType written only while it is 'Unknown'
ParseOneFirstWriter(pl, log, logIndex) ==
    LET a == TryERC20(pl, log, logIndex)
        b == IF a.parsed THEN a ELSE TryERC721(a.pl, log, logIndex)
        r == IF b.parsed THEN b.pl ELSE Fallback(b.pl, log, logIndex)
    IN  IF pl.contractType # "Unknown" THEN [r EXCEPT !.contractType = pl.contractType]
        ELSE r

\* One iteration of the loop over the logs
ParseOne(pl, log, logIndex) ==
    LET a == TryERC20(pl, log, logIndex)
        b == IF a.parsed THEN a ELSE TryERC721(a.pl, log, logIndex)
    IN  IF b.parsed THEN b.pl ELSE Fallback(b.pl, log, logIndex)

\* Array.from on the two address sets
ConvertSets(pl) == [pl EXCEPT !.addressesAre = "Array"]

----------------------------------------------------------------------------
(* BlockchainService.analyzeTransactionPattern *)

\* .length of the address collection: undefined on a Set
Length(pl, coll) ==
    IF pl.addressesAre = "Array"
    THEN [defined |-> TRUE, n |-> Len(coll)]
    ELSE [defined |-> FALSE, n |-> 0]

\* PatternType with the value test ahead of the event tests
PatternTypeValueFirst(tx, pl) ==
    IF tx.value > 0 THEN "eth_transfer"
    ELSE IF Len(pl.transfers) > 0 THEN "transfer"
    ELSE IF Len(pl.deposits) > 0 THEN "deposit"
    ELSE IF tx.data # "" /\ tx.data # "0x" THEN "contract_call"
    ELSE "unknown"

PatternType(tx, pl) ==
    IF Len(pl.transfers) > 0 THEN "transfer"
    ELSE IF Len(pl.deposits) > 0 THEN "deposit"
    ELSE IF tx.data # "" /\ tx.data # "0x" THEN "contract_call"
    ELSE IF tx.value > 0 THEN "eth_transfer"
    ELSE "unknown"

AnalyzePattern(tx, pl) ==
    [type |-> PatternType(tx, pl),
     success |-> (tx.status = 1),
     hasTransfers |-> Len(pl.transfers) > 0,
     hasDeposits |-> Len(pl.deposits) > 0,
     contractType |-> pl.contractType,
     senderCount |-> Length(pl, pl.senderAddresses),
     receiverCount |-> Length(pl, pl.receiverAddresses),
     totalEvents |-> Len(pl.transfers) + Len(pl.deposits) + Len(pl.otherEvents)]

\* The transaction and the receipt status the analysis is run on
Transactions == [data : {"0x", "0xa9059cbb"}, value : {0, 1}, status : {0, 1}]

NoTransaction == [data |-> "", value |-> 0, status |-> 0]
NoAnalysis == [type |-> "", success |-> FALSE, hasTransfers |-> FALSE,
               hasDeposits |-> FALSE, contractType |-> "",
               senderCount |-> [defined |-> FALSE, n |-> 0],
               receiverCount |-> [defined |-> FALSE, n |-> 0], totalEvents |-> 0]

----------------------------------------------------------------------------
(* The service at rest *)

\* initProvider before the module is loaded: no attempt made, no wait served
NoBoot == [pc |-> "unloaded", retries |-> 0, attempts |-> <<>>, waits |-> <<>>]

NoRequest == [txHash |-> "", contractAddress |-> "", disputeDescription |-> ""]

\* { balances: {}, contractInfo: {} }: every field absent
EmptyContractState ==
    [balance |-> "absent", symbol |-> "absent", name |-> "absent", decimals |-> "absent"]

\* getContractState's catch-all answer {}
NoContractState ==
    [balance |-> "undefined", symbol |-> "undefined", name |-> "undefined",
     decimals |-> "undefined"]

NoWork ==
    [contractAddress |-> "", from |-> "", logs |-> <<>>, tx |-> NoTransaction,
     blockTime |-> "unset",
     events |-> EmptyParsedLogs, contractState |-> NoContractState,
     analysis |-> NoAnalysis, aiAnalysis |-> "null"]

NoResponse == [status |-> 0, success |-> FALSE, error |-> <<>>, aiAnalysis |-> "null",
               hasData |-> FALSE]

\* The callers of fetchABI that run concurrently
CallerIds == {"first", "second"}

NoCaller == [pc |-> "idle", address |-> <<>>, abi |-> Absent, result |-> Return(Absent),
             sources |-> {}, wrote |-> FALSE]

\* The request handling at rest, in the specifications that do not run it
ServiceIdle ==
    /\ rpcUrl = <<>>
    /\ boot = NoBoot
    /\ apiKey = FALSE
    /\ req = NoRequest
    /\ rpos = "idle"
    /\ work = NoWork
    /\ did = <<>>
    /\ response = NoResponse
    /\ callers = [c \in CallerIds |-> NoCaller]
    /\ writes = <<>>

----------------------------------------------------------------------------
(* The standard path: parseLogs, then analyzeTransactionPattern *)

NoABI == [valid |-> FALSE, events |-> <<>>]
NoABIParsed == [transfers |-> <<>>, failures |-> <<>>, partialTransfers |-> <<>>,
                contractType |-> "Custom", parsedEvents |-> <<>>]

Init ==
    /\ pc = "parseLogs"
    /\ logs = <<>>
    /\ contractAddress \in {"", "0xToken"}
    /\ parsedLogs = EmptyParsedLogs
    /\ transaction = NoTransaction
    /\ analysis = NoAnalysis
    /\ abi = NoABI
    /\ abiParsed = NoABIParsed
    /\ FetchIdle
    /\ ServiceIdle

\* One iteration of the for loop of parseLogs.  A log without topics makes
\* the fallback raise, and the outer catch returns the accumulator as it is.
ParseLogsIterate ==
    /\ pc = "parseLogs"
    /\ Len(logs) < MaxLogs
    /\ \E log \in Logs :
        /\ logs' = Append(logs, log)
        /\ IF WellFormed(log)
           THEN /\ parsedLogs' = ParseOne(parsedLogs, log, Len(logs))
                /\ pc' = pc
           ELSE /\ parsedLogs' = parsedLogs
                /\ pc' = "parsed"
    /\ UNCHANGED <<contractAddress, transaction, analysis, abi, abiParsed, fetchVars, serviceVars>>

\* The loop is over: the sets become arrays and parseLogs returns
ParseLogsReturn ==
    /\ pc = "parseLogs"
    /\ parsedLogs' = ConvertSets(parsedLogs)
    /\ pc' = "parsed"
    /\ UNCHANGED <<logs, contractAddress, transaction, analysis, abi, abiParsed, fetchVars, serviceVars>>

AnalyzeTransactionPattern ==
    /\ pc = "parsed"
    /\ \E tx \in Transactions :
        /\ transaction' = tx
        /\ analysis' = AnalyzePattern(tx, parsedLogs)
    /\ pc' = "done"
    /\ UNCHANGED <<logs, contractAddress, parsedLogs, abi, abiParsed, fetchVars, serviceVars>>

Next == ParseLogsIterate \/ ParseLogsReturn \/ AnalyzeTransactionPattern

Spec == Init /\ [][Next]_vars

----------------------------------------------------------------------------
(* Properties of the standard path *)

\* the records of a list that carry log index k
At(list, k) == {j \in 1..Len(list) : list[j].logIndex = k}

AllWellFormed == \A i \in 1..Len(logs) : WellFormed(logs[i])

ERC20Matches(log) ==
    LET d == ParseLog(ERC20_ABI, log) IN d.kind = "ok" /\ ArgsOk(d, Len(d.args))

ERC721Matches(log) ==
    LET d == ParseLog(ERC721_ABI, log) IN d.kind = "ok" /\ ArgsOk(d, Len(d.args))

\* C1: on the standard path every well-formed log iterated has exactly one
\* record, in exactly one of transfers, deposits and otherEvents, so the
\* three lengths add up to the number of logs, and totalEvents reports it.
C1_TotalCoverage ==
    AllWellFormed =>
        /\ Len(parsedLogs.transfers) + Len(parsedLogs.deposits)
              + Len(parsedLogs.otherEvents) = Len(logs)
        /\ \A k \in 0..(Len(logs) - 1) :
              Cardinality(At(parsedLogs.transfers, k))
                + Cardinality(At(parsedLogs.deposits, k))
                + Cardinality(At(parsedLogs.otherEvents, k)) = 1
        /\ (pc = "done" => analysis.totalEvents = Len(logs))

C1_Witness ==
    /\ pc = "done"
    /\ AllWellFormed
    /\ Len(logs) = 2
    /\ Len(parsedLogs.transfers) = 1
    /\ Len(parsedLogs.otherEvents) = 1

BuiltInTypes == {"ERC20 Transfer", "ERC721 Transfer", "Deposit", "Unknown Event"}

\* C3: when a contract address is given and its ABI is available, a log that
\* ABI decodes is reported as that ABI decodes it, not under a built-in
\* schema or as an unknown event.
C3_CustomABIFirst ==
    (pc = "done" /\ contractAddress # "") =>
        \A i \in 1..Len(logs) :
            LET d == ParseLog(VerifiedABI, logs[i])
            IN  (d.kind = "ok" /\ ArgsOk(d, Len(d.args))) =>
                    \A list \in {parsedLogs.transfers, parsedLogs.deposits,
                                 parsedLogs.otherEvents} :
                        \A j \in At(list, i - 1) : list[j].type \notin BuiltInTypes

\* C4: a log the ERC-20 schema matches gets one record, "ERC20 Transfer" or
\* "Deposit", and nothing else, also when the ERC-721 schema matches it too;
\* a log the ERC-20 schema does not match is handled as if the ERC-20
\* attempt had not been made.
C4_SchemaPriority ==
    [][(pc = "parseLogs" /\ Len(logs') = Len(logs) + 1 /\ WellFormed(logs'[Len(logs')])) =>
        LET log == logs'[Len(logs')]
            old == parsedLogs
            new == parsedLogs'
        IN  /\ ERC20Matches(log) =>
                /\ new.otherEvents = old.otherEvents
                /\ \/ /\ new.deposits = old.deposits
                      /\ Len(new.transfers) = Len(old.transfers) + 1
                      /\ SubSeq(new.transfers, 1, Len(old.transfers)) = old.transfers
                      /\ new.transfers[Len(new.transfers)].type = "ERC20 Transfer"
                   \/ /\ new.transfers = old.transfers
                      /\ Len(new.deposits) = Len(old.deposits) + 1
                      /\ SubSeq(new.deposits, 1, Len(old.deposits)) = old.deposits
                      /\ new.deposits[Len(new.deposits)].type = "Deposit"
                /\ new.contractType = "ERC20"
            /\ (~ERC20Matches(log) /\ ERC721Matches(log)) =>
                /\ new = TryERC721(old, log, Len(logs)).pl
                /\ new.contractType = "ERC721"
            /\ (~ERC20Matches(log) /\ ~ERC721Matches(log)) =>
                /\ new.transfers = old.transfers
                /\ new.deposits = old.deposits
                /\ new.contractType = old.contractType
                /\ Len(new.otherEvents) = Len(old.otherEvents) + 1
    ]_vars

C4_Witness ==
    \E i \in 1..Len(logs) :
        /\ WellFormed(logs[i])
        /\ ERC20Matches(logs[i])
        /\ ERC721Matches(logs[i])
        /\ \E j \in At(parsedLogs.transfers, i - 1) :
                parsedLogs.transfers[j].type = "ERC20 Transfer"

\* C7: the transaction type is decided by the first rule that applies:
\* transfer records, deposit records, non-empty calldata, a value above 0.
C7_DecisionOrder ==
    pc = "done" =>
        LET hasT == Len(parsedLogs.transfers) > 0
            hasD == Len(parsedLogs.deposits) > 0
            hasData == transaction.data # "0x"
            pays == transaction.value > 0
        IN  /\ hasT => analysis.type = "transfer"
            /\ (~hasT /\ hasD) => analysis.type = "deposit"
            /\ (~hasT /\ ~hasD /\ hasData) => analysis.type = "contract_call"
            /\ (~hasT /\ ~hasD /\ ~hasData /\ pays) => analysis.type = "eth_transfer"
            /\ (~hasT /\ ~hasD /\ ~hasData /\ ~pays) => analysis.type = "unknown"

C7_Witness ==
    /\ pc = "done"
    /\ Len(parsedLogs.transfers) > 0
    /\ transaction.value > 0
    /\ analysis.type = "transfer"

\* the addresses the records of a list carry in a field
FromOf(list) == {list[j].from : j \in 1..Len(list)}
ToOf(list) == {list[j].to : j \in 1..Len(list)}

\* a topic that is 12 zero bytes followed by a 20-byte address
PaddedAddress(topic) == TopicLength(topic) = 66 /\ topic.hi = 0

\* the addresses that topics[i] (0-based) of the raw events hold, counting
\* only the topics that are padded addresses
Guessed(i) ==
    {TopicAddress(parsedLogs.otherEvents[j].topics[i + 1]) :
        j \in {k \in 1..Len(parsedLogs.otherEvents) :
                  /\ Len(parsedLogs.otherEvents[k].topics) > i
                  /\ PaddedAddress(parsedLogs.otherEvents[k].topics[i + 1])}}

Elements(seq) == {seq[j] : j \in 1..Len(seq)}

\* C18: a log matched by no schema is recorded in otherEvents with its raw
\* topics and data, and adds topics[1] to the senders and topics[2] to the
\* receivers only if that topic is a padded address: the senders are the
\* from of the matched events and the padded topics[1] of the raw events,
\* the receivers the to of the transfers and the padded topics[2].
C18_FallbackHeuristic ==
    AllWellFormed =>
        /\ \A j \in 1..Len(parsedLogs.otherEvents) :
              LET e == parsedLogs.otherEvents[j]
              IN  /\ e.topics = logs[e.logIndex + 1].topics
                  /\ e.data = logs[e.logIndex + 1].data
        /\ Elements(parsedLogs.senderAddresses) =
              FromOf(parsedLogs.transfers) \cup FromOf(parsedLogs.deposits) \cup Guessed(1)
        /\ Elements(parsedLogs.receiverAddresses) =
              ToOf(parsedLogs.transfers) \cup Guessed(2)

\* the schema that matches a log, ERC-20 first, or none
SchemaOf(log) ==
    IF ERC20Matches(log) THEN "ERC20"
    ELSE IF ERC721Matches(log) THEN "ERC721"
    ELSE "none"

\* C19: over a receipt whose logs all carry topics, when parseLogs returns
\* contractType is the schema of the last log that matched one, 'ERC20'
\* before 'ERC721' for a log both match, and 'Unknown' if none matched; a
\* log that matches no schema leaves it as it is; the analysis reports it
\* unchanged.
C19_LastWriterWins ==
    AllWellFormed =>
        /\ pc = "done" => analysis.contractType = parsedLogs.contractType
        /\ pc = "parsed" =>
              LET schemas == [k \in 1..Len(logs) |-> SchemaOf(logs[k])]
                  matched == {k \in 1..Len(logs) : schemas[k] # "none"}
              IN  parsedLogs.contractType =
                    IF matched = {} THEN "Unknown"
                    ELSE schemas[CHOOSE k \in matched : \A j \in matched : j <= k]

C19_Witness ==
    /\ pc = "done"
    /\ Len(logs) = 2
    /\ AllWellFormed
    /\ ERC20Matches(logs[1])
    /\ ~ERC20Matches(logs[2])
    /\ ERC721Matches(logs[2])
    /\ analysis.contractType = "ERC721"

\* the addresses that topics[i] (0-based) of the raw events hold, counting
\* every topic of 66 characters as the fallback does
Extracted(i) ==
    {TopicAddress(parsedLogs.otherEvents[j].topics[i + 1]) :
        j \in {k \in 1..Len(parsedLogs.otherEvents) :
                  /\ Len(parsedLogs.otherEvents[k].topics) > i
                  /\ TopicLength(parsedLogs.otherEvents[k].topics[i + 1]) = 66}}

\* a list that holds no element twice
DuplicateFree(seq) == \A i, j \in 1..Len(seq) : seq[i] = seq[j] => i = j

\* C21: for every log sequence, one with a log that carries no topics
\* included, parseLogs gives every log a record and returns the senders and
\* the receivers as duplicate-free arrays of the addresses of the matched
\* events and of the topics the fallback extracted, and the analysis
\* reports their numbers as senderCount and receiverCount.
C21_AddressAggregation ==
    pc = "done" =>
        /\ Len(parsedLogs.transfers) + Len(parsedLogs.deposits)
              + Len(parsedLogs.otherEvents) = Len(logs)
        /\ parsedLogs.addressesAre = "Array"
        /\ DuplicateFree(parsedLogs.senderAddresses)
        /\ DuplicateFree(parsedLogs.receiverAddresses)
        /\ Elements(parsedLogs.senderAddresses) =
              FromOf(parsedLogs.transfers) \cup FromOf(parsedLogs.deposits)
                \cup Extracted(1)
        /\ Elements(parsedLogs.receiverAddresses) =
              ToOf(parsedLogs.transfers) \cup Extracted(2)
        /\ analysis.senderCount =
              [defined |-> TRUE, n |-> Cardinality(Elements(parsedLogs.senderAddresses))]
        /\ analysis.receiverCount =
              [defined |-> TRUE, n |-> Cardinality(Elements(parsedLogs.receiverAddresses))]

----------------------------------------------------------------------------
(* ABIFetcher.parseLogsWithABI *)

\* The abi argument: a document ethers.Interface accepts, or one it rejects
ABIs == {[valid |-> TRUE, events |-> VerifiedABI],
         [valid |-> TRUE, events |-> TokenABI],
         [valid |-> FALSE, events |-> <<>>]}

\* The logs the ABI-driven path is run on
ABILogs ==
    {Log(<<t>> \o a, d) :
        t \in {TransferTopic, DepositTopic, ApprovalTopic, TransferFailedTopic,
               PartialTransferTopic, PartialTransferFailedTopic},
        a \in {<<>>, <<PadA, PadB>>, <<Junk, PadB>>},
        d \in {<<>>, <<Five, Five>>}}
    \cup {Log(<<>>, <<>>), Malformed}

\* parsedLog.args[i]?.toString(), i counted from 1: absent past the last
\* argument
OptArg(d, i) == IF i <= Len(d.args) THEN <<ValueToString(d.args[i].v)>> ELSE <<>>

\* Categorize with the partial test ahead of the failed test
CategorizePartialFirst(acc, d, logIndex) ==
    IF Includes(ToLowerCase(d.name), lTransfer)
    THEN IF Includes(ToLowerCase(d.name), lPartial)
         THEN [acc EXCEPT !.partialTransfers = Append(@,
                [type |-> d.name, from |-> OptArg(d, 1), to |-> OptArg(d, 2),
                 requested |-> OptArg(d, 3), sent |-> OptArg(d, 4),
                 logIndex |-> logIndex])]
         ELSE IF Includes(ToLowerCase(d.name), lFailed)
         THEN [acc EXCEPT !.failures = Append(@,
                [type |-> d.name, from |-> OptArg(d, 1), to |-> OptArg(d, 2),
                 amount |-> OptArg(d, 3), reason |-> OptArg(d, 4),
                 logIndex |-> logIndex])]
         ELSE [acc EXCEPT !.transfers = Append(@,
                [type |-> d.name, from |-> OptArg(d, 1), to |-> OptArg(d, 2),
                 amount |-> OptArg(d, 3), logIndex |-> logIndex])]
    ELSE acc

\* The categorisation of a decoded event by the patterns of its name
Categorize(acc, d, logIndex) ==
    IF Includes(ToLowerCase(d.name), lTransfer)
    THEN IF Includes(ToLowerCase(d.name), lFailed)
         THEN [acc EXCEPT !.failures = Append(@,
                [type |-> d.name, from |-> OptArg(d, 1), to |-> OptArg(d, 2),
                 amount |-> OptArg(d, 3), reason |-> OptArg(d, 4),
                 logIndex |-> logIndex])]
         ELSE IF Includes(ToLowerCase(d.name), lPartial)
         THEN [acc EXCEPT !.partialTransfers = Append(@,
                [type |-> d.name, from |-> OptArg(d, 1), to |-> OptArg(d, 2),
                 requested |-> OptArg(d, 3), sent |-> OptArg(d, 4),
                 logIndex |-> logIndex])]
         ELSE [acc EXCEPT !.transfers = Append(@,
                [type |-> d.name, from |-> OptArg(d, 1), to |-> OptArg(d, 2),
                 amount |-> OptArg(d, 3), logIndex |-> logIndex])]
    ELSE acc

\* One iteration of the loop of parseLogsWithABI: a null description adds
\* nothing, a raise (in parseLog or in reading the args) adds the "Unknown"
\* placeholder, a description is categorised and listed.
ParseWithABIOne(acc, iface, log, logIndex) ==
    LET d == ParseLog(iface, log)
    IN  IF d.kind = "null" THEN acc
        ELSE IF d.kind = "throw" \/ ~ArgsOk(d, Len(d.args))
        THEN [acc EXCEPT !.parsedEvents = Append(@,
                [name |-> sUnknown, args |-> <<>>, logIndex |-> logIndex,
                 error |-> TRUE])]
        ELSE [Categorize(acc, d, logIndex) EXCEPT !.parsedEvents = Append(@,
                [name |-> d.name,
                 args |-> [i \in 1..Len(d.args) |-> ValueToString(d.args[i].v)],
                 logIndex |-> logIndex])]

InitABI ==
    /\ pc = "interface"
    /\ logs = <<>>
    /\ contractAddress = "0xToken"
    /\ parsedLogs = EmptyParsedLogs
    /\ transaction = NoTransaction
    /\ analysis = NoAnalysis
    /\ abi \in ABIs
    /\ abiParsed = NoABIParsed
    /\ FetchIdle
    /\ ServiceIdle

\* new ethers.Interface(abi): a document it rejects raises into the outer
\* catch, which returns the empty accumulator
NewInterface ==
    /\ pc = "interface"
    /\ pc' = IF abi.valid THEN "loop" ELSE "returned"
    /\ UNCHANGED <<logs, contractAddress, parsedLogs, transaction, analysis, abi, abiParsed,
                   fetchVars, serviceVars>>

ParseWithABIIterate ==
    /\ pc = "loop"
    /\ Len(logs) < MaxLogs
    /\ \E log \in ABILogs :
        /\ logs' = Append(logs, log)
        /\ abiParsed' = ParseWithABIOne(abiParsed, abi.events, log, Len(logs))
    /\ UNCHANGED <<pc, contractAddress, parsedLogs, transaction, analysis, abi, fetchVars, serviceVars>>

ParseWithABIReturn ==
    /\ pc = "loop"
    /\ pc' = "returned"
    /\ UNCHANGED <<logs, contractAddress, parsedLogs, transaction, analysis, abi, abiParsed,
                   fetchVars, serviceVars>>

NextABI == NewInterface \/ ParseWithABIIterate \/ ParseWithABIReturn

SpecABI == InitABI /\ [][NextABI]_vars

----------------------------------------------------------------------------
(* Properties of the ABI-driven path *)

Placeholders(k) ==
    {j \in At(abiParsed.parsedEvents, k) : abiParsed.parsedEvents[j].name = sUnknown}

\* C2: on the ABI-driven path every log has exactly one outcome: a record in
\* one of transfers, failures, partialTransfers, or an unknown record.
C2_ABITotalCoverage ==
    pc = "returned" =>
        \A k \in 0..(Len(logs) - 1) :
            Cardinality(At(abiParsed.transfers, k))
              + Cardinality(At(abiParsed.failures, k))
              + Cardinality(At(abiParsed.partialTransfers, k))
              + Cardinality(Placeholders(k)) = 1

\* the description of log i under the abi of the call, when it decodes
Decodes(i) ==
    LET d == ParseLog(abi.events, logs[i]) IN d.kind = "ok" /\ ArgsOk(d, Len(d.args))

C6_OneEntryPerLog ==
    (pc = "returned" /\ abi.valid) =>
        /\ Len(abiParsed.parsedEvents) = Len(logs)
        /\ \A i \in 1..Len(abiParsed.parsedEvents) :
              /\ abiParsed.parsedEvents[i].logIndex = i - 1
              /\ (i <= Len(logs) /\ ~Decodes(i)) =>
                    abiParsed.parsedEvents[i].name = sUnknown

----------------------------------------------------------------------------
(* ABIFetcher.fetchABI in the running service *)

ParseIdle ==
    /\ pc = "idle"
    /\ logs = <<>>
    /\ contractAddress = ""
    /\ parsedLogs = EmptyParsedLogs
    /\ transaction = NoTransaction
    /\ analysis = NoAnalysis
    /\ abi = NoABI
    /\ abiParsed = NoABIParsed

InitFetch ==
    /\ ParseIdle
    /\ ServiceIdle
    /\ redisUrl \in BOOLEAN
    /\ phase = "starting"
    /\ dbClient = "null"
    /\ fetcherClient = "unloaded"
    /\ store = [k \in Keys |-> NoEntry]
    /\ now = 0
    /\ ticks = 0
    /\ fpc = "idle"
    /\ call = NoCall
    /\ trace = <<>>
    /\ result = Return(Absent)

\* The module is loaded: module.exports = new ABIFetcher() runs the
\* constructor, which copies the client config/database holds at that time.
\* No file of the repository requires the module, so it is loaded with the
\* others, before startServer, or on first use.
LoadABIFetcher ==
    /\ fetcherClient = "unloaded"
    /\ fetcherClient' = dbClient
    /\ UNCHANGED <<parseVars, serviceVars, redisUrl, phase, dbClient, store, now, ticks, fpc, call,
                   trace, result>>

\* startServer: connectRedis creates the client if REDIS_URL is set, and the
\* server listens
StartServer ==
    /\ phase = "starting"
    /\ dbClient' = IF redisUrl THEN "client" ELSE "null"
    /\ phase' = "listening"
    /\ UNCHANGED <<parseVars, serviceVars, redisUrl, fetcherClient, store, now, ticks, fpc, call,
                   trace, result>>

\* Time passes
Tick ==
    /\ phase = "listening"
    /\ ticks < MaxTicks
    /\ \E d \in {1, CACHE_TTL - 1} : now' = now + d
    /\ ticks' = ticks + 1
    /\ UNCHANGED <<parseVars, serviceVars, redisUrl, phase, dbClient, fetcherClient, store, fpc, call,
                   trace, result>>

\* fetchABI(contractAddress) is called
FetchABI ==
    /\ phase = "listening"
    /\ fetcherClient # "unloaded"
    /\ fpc \in {"idle", "returned"}
    /\ \E a \in Addresses : call' = [address |-> a, abi |-> Absent, cacheFailed |-> FALSE]
    /\ trace' = <<>>
    /\ fpc' = "getCachedABI"
    /\ UNCHANGED <<parseVars, serviceVars, redisUrl, phase, dbClient, fetcherClient, store, now, ticks,
                   result>>

\* await this.getCachedABI(contractAddress), and the return on a hit
AwaitGetCachedABI ==
    /\ fpc = "getCachedABI"
    /\ \E redisOk \in BOOLEAN :
        LET r == GetCachedABI(fetcherClient, store, now, call.address, redisOk)
        IN  /\ trace' = Append(trace,
                    [src |-> "cache",
                     failed |-> (fetcherClient = "null" \/ ~redisOk),
                     served |-> Absent,
                     answer |-> r.value])
            /\ call' = [call EXCEPT !.cacheFailed = (fetcherClient # "null" /\ ~redisOk)]
            /\ IF r.threw \/ r.value.present
               THEN fpc' = "returned" /\ result' = r
               ELSE fpc' = "monadScan" /\ result' = result
    /\ UNCHANGED <<parseVars, serviceVars, redisUrl, phase, dbClient, fetcherClient, store, now, ticks>>

\* let abi = await this.fetchFromMonadScan(contractAddress)
AwaitMonadScan ==
    /\ fpc = "monadScan"
    /\ \E resp \in ScanResponses :
        LET r == FetchFromMonadScan(resp)
        IN  /\ trace' = Append(trace,
                    [src |-> "A",
                     failed |-> (resp.kind = "error" \/ ~resp.result.valid),
                     served |-> IF resp.kind = "ok" /\ resp.status = "1" /\ resp.result.valid
                                THEN Found(resp.result.doc) ELSE Absent,
                     answer |-> r.value])
            /\ call' = [call EXCEPT !.abi = r.value]
            /\ IF r.threw
               THEN fpc' = "returned" /\ result' = r
               ELSE fpc' = AfterMonadScan(r.value) /\ result' = result
    /\ UNCHANGED <<parseVars, serviceVars, redisUrl, phase, dbClient, fetcherClient, store, now, ticks>>

\* abi = await this.fetchFromMonadExplorer(contractAddress), and the return
\* of null when it found nothing either
AwaitMonadExplorer ==
    /\ fpc = "monadExplorer"
    /\ \E resp \in ExplorerResponses :
        LET r == FetchFromMonadExplorer(resp)
        IN  /\ trace' = Append(trace,
                    [src |-> "B",
                     failed |-> (resp.kind = "error"),
                     served |-> IF resp.kind = "ok" THEN resp.abi ELSE Absent,
                     answer |-> r.value])
            /\ call' = [call EXCEPT !.abi = r.value]
            /\ IF r.threw \/ ~r.value.present
               THEN fpc' = "returned" /\ result' = r
               ELSE fpc' = "cacheABI" /\ result' = result
    /\ UNCHANGED <<parseVars, serviceVars, redisUrl, phase, dbClient, fetcherClient, store, now, ticks>>

\* await this.cacheABI(contractAddress, abi); return abi
AwaitCacheABI ==
    /\ fpc = "cacheABI"
    /\ \E redisOk \in BOOLEAN :
        /\ store' = CacheABI(fetcherClient, store, now, call.address, call.abi.doc, redisOk)
        /\ call' = [call EXCEPT !.cacheFailed = @ \/ (fetcherClient # "null" /\ ~redisOk)]
    /\ result' = Return(call.abi)
    /\ fpc' = "returned"
    /\ UNCHANGED <<parseVars, serviceVars, redisUrl, phase, dbClient, fetcherClient, now, ticks, trace>>

NextFetch ==
    \/ LoadABIFetcher
    \/ StartServer
    \/ Tick
    \/ FetchABI
    \/ AwaitGetCachedABI
    \/ AwaitMonadScan
    \/ AwaitMonadExplorer
    \/ AwaitCacheABI

SpecFetch == InitFetch /\ [][NextFetch]_vars

----------------------------------------------------------------------------
(* Properties of the resolver *)

LookupOrder == <<"cache", "A", "B">>

\* C8: the lookups of a call are made in the order cache, MonadScan,
\* MonadExplorer; a lookup is made only if every earlier one answered
\* absent; the call returns the answer of its last lookup, which is absent
\* only if all three were made.
C8_LookupOrder ==
    /\ Len(trace) <= Len(LookupOrder)
    /\ \A i \in 1..Len(trace) :
          /\ trace[i].src = LookupOrder[i]
          /\ i < Len(trace) => ~trace[i].answer.present
    /\ fpc = "returned" =>
          /\ Len(trace) >= 1
          /\ ~result.threw
          /\ result.value = trace[Len(trace)].answer
          /\ Len(trace) < Len(LookupOrder) => result.value.present

C8_Witness ==
    /\ fpc = "returned"
    /\ Len(trace) = 1
    /\ trace[1].answer.present
    /\ result.value = trace[1].answer

\* C9: with REDIS_URL set and Redis up, an ABI that fetchABI obtained from a
\* source is in the cache when the call returns, under the lower-cased
\* address and for 24 hours: a getCachedABI that follows at once answers it
\* for the address in any letter case.
C9_CacheRoundTrip ==
    [][(/\ fpc = "cacheABI"
        /\ fpc' = "returned"
        /\ redisUrl
        /\ ~call'.cacheFailed) =>
          /\ result'.value.present
          /\ \A a \in Addresses :
                ToLowerCase(a) = ToLowerCase(call.address) =>
                    GetCachedABI(fetcherClient', store', now', a, TRUE) = result'
          /\ store'[CacheKey(call.address)].expires = now' + CACHE_TTL
    ]_vars

\* C10: fetchABI never raises; a source that fails answers absent, and the
\* call returns the document of the first source, in lookup order, that
\* serves one, or absent if none does.
C10_FailureContainment ==
    /\ \A i \in 1..Len(trace) : trace[i].failed => ~trace[i].answer.present
    /\ fpc = "returned" =>
          /\ ~result.threw
          /\ \A i \in 2..Len(trace) :
                (trace[i].served.present
                   /\ \A j \in 2..(i - 1) : ~trace[j].served.present)
                => result.value = trace[i].served
          /\ (Len(trace) > 1 /\ \A i \in 2..Len(trace) : ~trace[i].served.present)
                => result.value = Absent

C10_Witness ==
    /\ fpc = "returned"
    /\ Len(trace) = 3
    /\ trace[1].failed
    /\ trace[2].failed
    /\ trace[3].served.present
    /\ result = Return(trace[3].served)

----------------------------------------------------------------------------
(* BlockchainService.initProvider *)

\* const maxRetries = 3
maxRetries == 3

\* the unit of setTimeout(resolve, 1000 * retries), in milliseconds
BackoffUnit == 1000

\* A URL an operator sets, and the literal the success message looks for
MONAD == <<"h","t","t","p","s",":","/","/","m","o","n","a","d",".","x","y","z">>
lMonad == <<"m","o","n","a","d">>

\* process.env.MONAD_RPC_URL || process.env.ETHEREUM_RPC_URL: undefined (the
\* empty tuple) when neither is set
RpcUrls == {<<>>, MONAD}

\* rpcUrl.includes('monad') in the success message: a read of a property of
\* undefined raises
UrlIncludes(url, t) == [threw |-> url = <<>>, value |-> url # <<>> /\ Includes(url, t)]

\* new ethers.JsonRpcProvider(rpcUrl) and the first getNetwork(), as the
\* constructor leaves them when the module is loaded
Booting == [pc |-> "getNetwork", retries |-> 0, attempts |-> <<>>, waits |-> <<>>]

\* One pass of the while loop from the point getNetwork() settles: break on
\* success, otherwise count the failure and raise or wait
InitProviderStep(b, url, reachable) ==
    IF reachable /\ ~UrlIncludes(url, lMonad).threw
    THEN [b EXCEPT !.pc = "ready", !.attempts = Append(@, reachable)]
    ELSE IF b.retries + 1 >= maxRetries
    THEN [b EXCEPT !.pc = "rejected", !.retries = @ + 1,
                   !.attempts = Append(@, reachable)]
    ELSE [b EXCEPT !.pc = "sleeping", !.retries = @ + 1,
                   !.attempts = Append(@, reachable),
                   !.waits = Append(@, BackoffUnit * (b.retries + 1))]

----------------------------------------------------------------------------
(* The analyze request: controller, analyzeTransaction, getContractState and
   the AI call *)

mTransactionNotFound == <<"T","r","a","n","s","a","c","t","i","o","n"," ","n","o","t"," ","f","o","u","n","d">>
mReceiptNotFound == <<"T","r","a","n","s","a","c","t","i","o","n"," ","r","e","c","e","i","p","t"," ","n","o","t"," ","f","o","u","n","d">>
mAIUnavailable == <<"A","I"," ","s","e","r","v","i","c","e"," ","t","e","m","p","o","r","a","r","i","l","y"," ","u","n","a","v","a","i","l","a","b","l","e">>
mProvider == <<"c","o","u","l","d"," ","n","o","t"," ","d","e","t","e","c","t"," ","n","e","t","w","o","r","k">>
mBigInt == <<"D","o"," ","n","o","t"," ","k","n","o","w"," ","h","o","w"," ","t","o"," ","s","e","r","i","a","l","i","z","e"," ","a"," ","B","i","g","I","n","t">>
mTxHashRequired == <<"T","r","a","n","s","a","c","t","i","o","n"," ","h","a","s","h"," ","i","s"," ","r","e","q","u","i","r","e","d">>
mFetchFailed == <<"F","a","i","l","e","d"," ","t","o"," ","f","e","t","c","h"," ","c","o","n","t","r","a","c","t"," ","a","d","d","r","e","s","s"," ","f","r","o","m"," ","t","r","a","n","s","a","c","t","i","o","n">>
mInternal == <<"I","n","t","e","r","n","a","l"," ","s","e","r","v","e","r"," ","e","r","r","o","r">>
lAIService == <<"A","I"," ","s","e","r","v","i","c","e">>

\* The bodies of POST /analyze
Requests ==
    [txHash : {"", "0xTx"}, contractAddress : {"", "0xToken", "0xWallet"},
     disputeDescription : {"", "refund"}]

\* What provider.getTransaction answers: null, a raise, or a transaction;
\* to is null for a contract creation
TransactionAnswers ==
    {[kind |-> "null", from |-> "", to |-> ""], [kind |-> "throw", from |-> "", to |-> ""]}
    \cup {[kind |-> "ok", from |-> "0xFrom", to |-> t] : t \in {"", "0xToken", "0xWallet"}}

\* The receipts explored: their logs, with the transaction's data, value and
\* the receipt's status
Receipts ==
    {[logs |-> <<>>, tx |-> [data |-> "0x", value |-> 1, status |-> 1]],
     [logs |-> <<Log(<<TransferTopic, PadA, PadB>>, <<Five>>)>>,
      tx |-> [data |-> "0xa9059cbb", value |-> 0, status |-> 1]],
     [logs |-> <<Log(<<TransferFailedTopic, PadA>>, <<Five, Five>>)>>,
      tx |-> [data |-> "0xa9059cbb", value |-> 0, status |-> 0]],
     [logs |-> <<Malformed>>, tx |-> [data |-> "0xa9059cbb", value |-> 1, status |-> 1]]}

RECURSIVE ParseLogsFrom(_, _, _)
\* parseLogs from log i (1-based) on: the loop, then the conversion of the
\* sets; a log without topics ends it in the outer catch
ParseLogsFrom(pl, ls, i) ==
    IF i > Len(ls) THEN ConvertSets(pl)
    ELSE IF ~WellFormed(ls[i]) THEN pl
    ELSE ParseLogsFrom(ParseOne(pl, ls[i], i - 1), ls, i + 1)

ParseLogs(ls) == ParseLogsFrom(EmptyParsedLogs, ls, 1)

\* The reads of getContractState, in the order the code makes them
StateCalls == <<"balanceOf", "symbol", "name", "decimals">>

\* What a read answers on success: ethers returns every integer as a bigint
CallReturns(method) == IF method \in {"balanceOf", "decimals"} THEN "bigint" ELSE "string"

\* What getContractState stores of it: the balance through toString(), the
\* others as returned
Stored(method) == IF method = "balanceOf" THEN "string" ELSE CallReturns(method)

\* The field a read fills
SetField(cs, method) ==
    IF method = "balanceOf" THEN [cs EXCEPT !.balance = Stored(method)]
    ELSE IF method = "symbol" THEN [cs EXCEPT !.symbol = Stored(method)]
    ELSE IF method = "name" THEN [cs EXCEPT !.name = Stored(method)]
    ELSE [cs EXCEPT !.decimals = Stored(method)]

Field(cs, method) ==
    IF method = "balanceOf" THEN cs.balance
    ELSE IF method = "symbol" THEN cs.symbol
    ELSE IF method = "name" THEN cs.name
    ELSE cs.decimals

\* Only a token contract answers these reads; a wallet or a contract of
\* another kind makes each of them raise
CanSucceed(address) == address = "0xToken"

\* Where getContractState starts: new ethers.Contract raises on a missing
\* address, into the catch that returns the empty state; the balance is read
\* only for a sender
FirstStateCall(address, sender) ==
    IF address = "" THEN "analysed"
    ELSE IF sender # "" THEN "balanceOf"
    ELSE "symbol"

\* AfterStateCall with a failed read ending getContractState
AfterStateCallAbort(method, ok) ==
    IF ~ok THEN "analysed"
    ELSE IF method = "balanceOf" THEN "symbol"
    ELSE IF method = "symbol" THEN "name"
    ELSE IF method = "name" THEN "decimals"
    ELSE "analysed"

\* The read that follows a read, whether it succeeded or was caught
AfterStateCall(method, ok) ==
    IF method = "balanceOf" THEN "symbol"
    ELSE IF method = "symbol" THEN "name"
    ELSE IF method = "name" THEN "decimals"
    ELSE "analysed"

ErrorResponse(status, msg) ==
    [status |-> status, success |-> FALSE, error |-> msg, aiAnalysis |-> "null",
     hasData |-> FALSE]

\* ControllerCatch without the test for 'Transaction not found'
ControllerCatchNoNotFound(msg) ==
    IF Includes(msg, lAIService) THEN ErrorResponse(503, msg)
    ELSE ErrorResponse(500, mInternal)

\* The catch of the controller: the response chosen from the error message
ControllerCatch(msg) ==
    IF Includes(msg, mTransactionNotFound) THEN ErrorResponse(404, mTransactionNotFound)
    ELSE IF Includes(msg, lAIService) THEN ErrorResponse(503, msg)
    ELSE ErrorResponse(500, mInternal)

\* JSON.stringify raises a TypeError on a bigint
Serializable(w) == \A m \in {"balanceOf", "symbol", "name", "decimals"} :
                        Field(w.contractState, m) # "bigint"

\* res.json({ success: true, data }): inside the try, so a raise of the
\* serialization goes to the catch
ResJson(w) ==
    IF Serializable(w)
    THEN [status |-> 200, success |-> TRUE, error |-> <<>>, aiAnalysis |-> w.aiAnalysis,
          hasData |-> TRUE]
    ELSE ControllerCatch(mBigInt)

\* AfterAnalysis with the AI asked on every request
AfterAnalysisAlwaysAI(r) == "ai"

\* if (disputeDescription): the AI is asked only when there is one
AfterAnalysis(r) == IF r.disputeDescription # "" THEN "ai" ELSE "respond"

\* analyzeDispute: every raise inside it, the missing key included, is
\* replaced by 'AI service temporarily unavailable'
AnalyzeDispute(key, answer) ==
    IF ~key THEN [threw |-> TRUE, msg |-> mAIUnavailable, text |-> "null", sent |-> FALSE]
    ELSE IF answer = "ok"
    THEN [threw |-> FALSE, msg |-> <<>>, text |-> "text", sent |-> TRUE]
    ELSE [threw |-> TRUE, msg |-> mAIUnavailable, text |-> "null", sent |-> TRUE]

Did(op, outcome) == [op |-> op, outcome |-> outcome]

----------------------------------------------------------------------------
(* The service: provider initialization, server start and analyze requests *)

InitService ==
    /\ ParseIdle
    /\ FetchIdle
    /\ rpcUrl \in RpcUrls
    /\ boot = Booting
    /\ apiKey \in BOOLEAN
    /\ req = NoRequest
    /\ rpos = "idle"
    /\ work = NoWork
    /\ did = <<>>
    /\ response = NoResponse
    /\ callers = [c \in CallerIds |-> NoCaller]
    /\ writes = <<>>

\* await this.provider.getNetwork() settles
AwaitGetNetwork ==
    /\ boot.pc = "getNetwork"
    /\ \E reachable \in BOOLEAN : boot' = InitProviderStep(boot, rpcUrl, reachable)
    /\ UNCHANGED <<parseVars, fetchVars, rpcUrl, apiKey, req, rpos, work, did, response,
                   callers, writes>>

\* the timer of the backoff fires and the loop makes its next attempt
AwaitBackoff ==
    /\ boot.pc = "sleeping"
    /\ boot' = [boot EXCEPT !.pc = "getNetwork"]
    /\ UNCHANGED <<parseVars, fetchVars, rpcUrl, apiKey, req, rpos, work, did, response,
                   callers, writes>>

\* The constructor does not await initProvider(): its rejection reaches the
\* unhandledRejection handler of server.js, which logs it
UnhandledRejection ==
    /\ boot.pc = "rejected"
    /\ boot' = [boot EXCEPT !.pc = "logged"]
    /\ UNCHANGED <<parseVars, fetchVars, rpcUrl, apiKey, req, rpos, work, did, response,
                   callers, writes>>

\* POST /analyze reaches the controller, up to its first await
AcceptRequest ==
    /\ phase = "listening"
    /\ rpos \in {"idle", "sent"}
    /\ \E body \in Requests :
        /\ req' = body
        /\ work' = [NoWork EXCEPT !.contractAddress = body.contractAddress]
        /\ IF body.txHash = ""
           THEN /\ response' = ErrorResponse(400, mTxHashRequired)
                /\ rpos' = "sent"
           ELSE /\ response' = NoResponse
                /\ rpos' = IF body.contractAddress = "" THEN "prefetch" ELSE "getTransaction"
    /\ did' = <<>>
    /\ UNCHANGED <<parseVars, fetchVars, rpcUrl, boot, apiKey, callers, writes>>

\* The controller's own getTransaction, made when the request names no
\* contract address
AwaitPrefetch ==
    /\ rpos = "prefetch"
    /\ \E a \in TransactionAnswers :
        /\ did' = Append(did, Did("getTransaction", a.kind))
        /\ IF a.kind = "null"
           THEN /\ response' = ErrorResponse(404, mTransactionNotFound)
                /\ rpos' = "sent"
                /\ work' = work
           ELSE IF a.kind = "throw"
           THEN /\ response' = ErrorResponse(500, mFetchFailed)
                /\ rpos' = "sent"
                /\ work' = work
           ELSE /\ response' = response
                /\ rpos' = "getTransaction"
                /\ work' = [work EXCEPT !.contractAddress = a.to]
    /\ UNCHANGED <<parseVars, fetchVars, rpcUrl, boot, apiKey, req, callers, writes>>

\* analyzeTransaction: await this.provider.getTransaction(txHash)
AwaitGetTransaction ==
    /\ rpos = "getTransaction"
    /\ \E a \in TransactionAnswers :
        /\ did' = Append(did, Did("getTransaction", a.kind))
        /\ IF a.kind = "null"
           THEN /\ response' = ControllerCatch(mTransactionNotFound)
                /\ rpos' = "sent"
                /\ work' = work
           ELSE IF a.kind = "throw"
           THEN /\ response' = ControllerCatch(mProvider)
                /\ rpos' = "sent"
                /\ work' = work
           ELSE /\ response' = response
                /\ rpos' = "getTransactionReceipt"
                /\ work' = [work EXCEPT !.from = a.from]
    /\ UNCHANGED <<parseVars, fetchVars, rpcUrl, boot, apiKey, req, callers, writes>>

\* analyzeTransaction: await this.provider.getTransactionReceipt(txHash)
AwaitGetTransactionReceipt ==
    /\ rpos = "getTransactionReceipt"
    /\ \/ /\ did' = Append(did, Did("getTransactionReceipt", "null"))
          /\ response' = ControllerCatch(mReceiptNotFound)
          /\ rpos' = "sent"
          /\ work' = work
       \/ /\ did' = Append(did, Did("getTransactionReceipt", "throw"))
          /\ response' = ControllerCatch(mProvider)
          /\ rpos' = "sent"
          /\ work' = work
       \/ \E r \in Receipts :
          /\ did' = Append(did, Did("getTransactionReceipt", "ok"))
          /\ response' = response
          /\ rpos' = "getBlock"
          /\ work' = [work EXCEPT !.logs = r.logs, !.tx = r.tx]
    /\ UNCHANGED <<parseVars, fetchVars, rpcUrl, boot, apiKey, req, callers, writes>>

\* analyzeTransaction: await this.provider.getBlock(...), then parseLogs and
\* the start of getContractState up to its first read
AwaitGetBlock ==
    /\ rpos = "getBlock"
    /\ \E b \in {"throw", "null", "ok"} :
        IF b = "throw"
        THEN /\ did' = Append(did, Did("getBlock", b))
             /\ response' = ControllerCatch(mProvider)
             /\ rpos' = "sent"
             /\ work' = work
        ELSE /\ did' = did \o <<Did("getBlock", b), Did("parseLogs", "ok")>>
             /\ response' = response
             /\ rpos' = FirstStateCall(work.contractAddress, work.from)
             /\ work' = [work EXCEPT !.blockTime = IF b = "null" THEN "null" ELSE "iso",
                                     !.events = ParseLogs(work.logs),
                                     !.contractState = EmptyContractState]
    /\ UNCHANGED <<parseVars, fetchVars, rpcUrl, boot, apiKey, req, callers, writes>>

\* getContractState: one of its four reads settles
AwaitStateCall ==
    /\ \E i \in 1..Len(StateCalls) : rpos = StateCalls[i]
    /\ \E ok \in BOOLEAN :
        /\ ok => CanSucceed(work.contractAddress)
        /\ did' = Append(did, Did(rpos, IF ok THEN "ok" ELSE "throw"))
        /\ work' = IF ok THEN [work EXCEPT !.contractState = SetField(@, rpos)] ELSE work
        /\ rpos' = AfterStateCall(rpos, ok)
    /\ UNCHANGED <<parseVars, fetchVars, rpcUrl, boot, apiKey, req, response, callers, writes>>

\* analyzeTransaction returns its result to the controller, which asks the
\* AI or responds
ServiceReturns ==
    /\ rpos = "analysed"
    /\ work' = [work EXCEPT !.analysis = AnalyzePattern(work.tx, work.events)]
    /\ IF AfterAnalysis(req) = "ai"
       THEN rpos' = "ai" /\ response' = response
       ELSE rpos' = "sent" /\ response' = ResJson(work')
    /\ UNCHANGED <<parseVars, fetchVars, rpcUrl, boot, apiKey, req, did, callers, writes>>

\* await aiService.analyzeDispute(...), then the response
AwaitAnalyzeDispute ==
    /\ rpos = "ai"
    /\ \E answer \in {"ok", "error"} :
        LET r == AnalyzeDispute(apiKey, answer)
        IN  /\ did' = Append(did, Did("analyzeDispute", IF r.threw THEN "throw" ELSE "ok"))
            /\ work' = [work EXCEPT !.aiAnalysis = r.text]
            /\ response' = IF r.threw THEN ControllerCatch(r.msg) ELSE ResJson(work')
    /\ rpos' = "sent"
    /\ UNCHANGED <<parseVars, fetchVars, rpcUrl, boot, apiKey, req, callers, writes>>

NextService ==
    \/ AwaitGetNetwork
    \/ AwaitBackoff
    \/ UnhandledRejection
    \/ StartServer
    \/ AcceptRequest
    \/ AwaitPrefetch
    \/ AwaitGetTransaction
    \/ AwaitGetTransactionReceipt
    \/ AwaitGetBlock
    \/ AwaitStateCall
    \/ ServiceReturns
    \/ AwaitAnalyzeDispute

SpecService == InitService /\ [][NextService]_vars

----------------------------------------------------------------------------
(* Properties of the service *)

\* the positions of did that hold the call op with the outcome
Made(op, outcome) == {i \in 1..Len(did) : did[i] = Did(op, outcome)}
Attempted(op) == {i \in 1..Len(did) : did[i].op = op}

\* getContractState has been entered, and it has returned
StateEntered == Made("parseLogs", "ok") # {}
StateReturned == StateEntered /\ rpos \in {"analysed", "ai", "sent"}

\* C11: getContractState never raises and never answers its catch-all {};
\* a field is present exactly if its read succeeded; with a contract address
\* each of balanceOf, symbol, name and decimals is read once whatever the
\* others did; for a missing address or a contract that is no token the
\* result is { balances: {}, contractInfo: {} }.
C11_IndependentReads ==
    /\ (\E i \in 1..Len(StateCalls) : rpos = StateCalls[i]) => response = NoResponse
    /\ StateEntered =>
          /\ work.contractState # NoContractState
          /\ \A i \in 1..Len(StateCalls) :
                (Field(work.contractState, StateCalls[i]) # "absent")
                   <=> (Made(StateCalls[i], "ok") # {})
    /\ StateReturned =>
          /\ work.contractAddress # "" =>
                \A i \in 1..Len(StateCalls) : Cardinality(Attempted(StateCalls[i])) = 1
          /\ ~CanSucceed(work.contractAddress) =>
                work.contractState = EmptyContractState

C11_Witness ==
    /\ StateReturned
    /\ Made("balanceOf", "ok") # {}
    /\ Made("symbol", "throw") # {}
    /\ Made("name", "ok") # {}
    /\ Made("decimals", "throw") # {}
    /\ work.contractState = [balance |-> "string", symbol |-> "absent",
                             name |-> "string", decimals |-> "absent"]

\* C12: a getTransaction that answers null ends the request at once with
\* 404 'Transaction not found': it is the last call of the request, only
\* transaction lookups precede it, and no response is pending after it.
C12_TransactionNotFound ==
    Made("getTransaction", "null") # {} =>
        /\ rpos = "sent"
        /\ response.status = 404
        /\ response.error = mTransactionNotFound
        /\ ~response.success
        /\ Made("getTransaction", "null") = {Len(did)}
        /\ \A i \in 1..Len(did) : did[i].op = "getTransaction"

C12_Witness ==
    /\ rpos = "sent"
    /\ req.contractAddress # ""
    /\ did = <<Did("getTransaction", "null")>>
    /\ response = ErrorResponse(404, mTransactionNotFound)

\* C13: a receipt lookup that answers null ends the request with the
\* not-found response, status 404.
C13_ReceiptNotFound ==
    (rpos = "sent" /\ Made("getTransactionReceipt", "null") # {}) =>
        response.status = 404

\* C14: a request without dispute description whose transaction and receipt
\* both resolved is answered with success and the analysis.
C14_GracefulDegradation ==
    (/\ rpos = "sent"
     /\ req.disputeDescription = ""
     /\ Made("getTransactionReceipt", "ok") # {}) =>
        /\ response.status = 200
        /\ response.success
        /\ response.hasData

\* C15: the AI is asked only on a request with a dispute description, as the
\* last call of the request, after the transaction, the receipt, the block,
\* the logs and every contract-state read; a failed AI call, a missing key
\* included, ends the request with 503 and no success; without a description
\* the AI is not asked, aiAnalysis is null and no 503 is sent.
C15_AIOrdering ==
    /\ rpos = "ai" =>
          /\ req.disputeDescription # ""
          /\ StateEntered
          /\ work.analysis # NoAnalysis
    /\ Attempted("analyzeDispute") # {} =>
          /\ req.disputeDescription # ""
          /\ Attempted("analyzeDispute") = {Len(did)}
          /\ rpos = "sent"
          /\ Made("getTransaction", "ok") # {}
          /\ Made("getTransactionReceipt", "ok") # {}
          /\ Attempted("getBlock") # {}
          /\ StateEntered
          /\ work.contractAddress # "" =>
                \A i \in 1..Len(StateCalls) : Attempted(StateCalls[i]) # {}
          /\ ~apiKey => Made("analyzeDispute", "throw") # {}
    /\ Made("analyzeDispute", "throw") # {} =>
          /\ response.status = 503
          /\ ~response.success
          /\ ~response.hasData
    /\ req.disputeDescription = "" =>
          /\ Attempted("analyzeDispute") = {}
          /\ response.aiAnalysis = "null"
          /\ response.status # 503

C15_Witness ==
    /\ rpos = "sent"
    /\ req.disputeDescription # ""
    /\ ~apiKey
    /\ Made("analyzeDispute", "throw") = {Len(did)}
    /\ response = ErrorResponse(503, mAIUnavailable)

\* every attempt of initProvider found the node unreachable
AllUnreachable == \A i \in 1..Len(boot.attempts) : ~boot.attempts[i]

\* C16: once initProvider has failed on an unreachable node three times, the
\* service accepts no analyze request.
C16_FatalStartup ==
    [][(/\ boot.pc = "logged"
        /\ Len(boot.attempts) = 3
        /\ AllUnreachable) =>
          ~(rpos \in {"idle", "sent"} /\ rpos' \notin {"idle", "sent"})
    ]_vars

\* C17: initProvider makes at most 3 attempts; an attempt that reaches the
\* node is the last one and leaves the provider ready; failed attempt k of
\* the first two is followed by a wait of k x 1000 ms; the third failure
\* raises with no further wait.
C17_RetryLoop ==
    /\ Len(boot.attempts) <= 3
    /\ \A i \in 1..Len(boot.attempts) :
          boot.attempts[i] => (i = Len(boot.attempts) /\ boot.pc = "ready")
    /\ Len(boot.waits) <= 2
    /\ \A k \in 1..Len(boot.waits) : boot.waits[k] = k * 1000
    /\ boot.pc = "sleeping" => Len(boot.waits) = Len(boot.attempts)
    /\ boot.pc \in {"rejected", "logged"} =>
          (Len(boot.attempts) = 3 /\ Len(boot.waits) = 2)

----------------------------------------------------------------------------
(* Concurrent calls of ABIFetcher.fetchABI: each await is a point where the
   other call may run *)

\* the fields of the request handling that the resolver leaves alone
restVars == <<rpcUrl, boot, apiKey, req, rpos, work, did, response>>

\* the fields of the resolver that a call only reads
clientVars == <<redisUrl, phase, dbClient, fetcherClient, now, ticks, fpc, call, trace,
                result>>

\* the documents of an answer, as a set
DocsOf(found) == IF found.present THEN {found.doc} ELSE {}

\* fetchABI(contractAddress) is called by a caller that has no call under way
ConcurrentFetchABI ==
    /\ phase = "listening"
    /\ fetcherClient # "unloaded"
    /\ \E c \in CallerIds, a \in Addresses :
        /\ callers[c].pc = "idle"
        /\ callers' = [callers EXCEPT ![c] = [NoCaller EXCEPT !.pc = "getCachedABI",
                                                            !.address = a]]
    /\ UNCHANGED <<parseVars, clientVars, restVars, store, writes>>

\* a caller's await this.getCachedABI(contractAddress) settles
ConcurrentGetCachedABI ==
    /\ \E c \in CallerIds, redisOk \in BOOLEAN :
        LET r == GetCachedABI(fetcherClient, store, now, callers[c].address, redisOk)
        IN  /\ callers[c].pc = "getCachedABI"
            /\ callers' = [callers EXCEPT
                    ![c].pc = IF r.threw \/ r.value.present THEN "returned" ELSE "monadScan",
                    ![c].result = r]
    /\ UNCHANGED <<parseVars, clientVars, restVars, store, writes>>

\* a caller's await this.fetchFromMonadScan(contractAddress) settles
ConcurrentMonadScan ==
    /\ \E c \in CallerIds, resp \in ScanResponses :
        LET r == FetchFromMonadScan(resp)
        IN  /\ callers[c].pc = "monadScan"
            /\ callers' = [callers EXCEPT
                    ![c].pc = IF r.threw THEN "returned" ELSE AfterMonadScan(r.value),
                    ![c].abi = r.value,
                    ![c].sources = @ \cup DocsOf(r.value),
                    ![c].result = IF r.threw THEN r ELSE @]
    /\ UNCHANGED <<parseVars, clientVars, restVars, store, writes>>

\* a caller's await this.fetchFromMonadExplorer(contractAddress) settles
ConcurrentMonadExplorer ==
    /\ \E c \in CallerIds, resp \in ExplorerResponses :
        LET r == FetchFromMonadExplorer(resp)
        IN  /\ callers[c].pc = "monadExplorer"
            /\ callers' = [callers EXCEPT
                    ![c].pc = IF r.threw \/ ~r.value.present THEN "returned" ELSE "cacheABI",
                    ![c].abi = r.value,
                    ![c].sources = @ \cup DocsOf(r.value),
                    ![c].result = r]
    /\ UNCHANGED <<parseVars, clientVars, restVars, store, writes>>

\* a caller's await this.cacheABI(contractAddress, abi) settles, and the
\* call returns abi
ConcurrentCacheABI ==
    /\ \E c \in CallerIds, redisOk \in BOOLEAN :
        LET wrote == fetcherClient # "null" /\ redisOk
        IN  /\ callers[c].pc = "cacheABI"
            /\ store' = CacheABI(fetcherClient, store, now, callers[c].address,
                                 callers[c].abi.doc, redisOk)
            /\ writes' = IF wrote
                         THEN Append(writes, [caller |-> c,
                                              key |-> CacheKey(callers[c].address),
                                              doc |-> callers[c].abi.doc])
                         ELSE writes
            /\ callers' = [callers EXCEPT ![c].pc = "returned",
                                          ![c].wrote = wrote,
                                          ![c].result = Return(callers[c].abi)]
    /\ UNCHANGED <<parseVars, clientVars, restVars>>

NextConcurrent ==
    \/ LoadABIFetcher
    \/ StartServer
    \/ ConcurrentFetchABI
    \/ ConcurrentGetCachedABI
    \/ ConcurrentMonadScan
    \/ ConcurrentMonadExplorer
    \/ ConcurrentCacheABI

SpecConcurrent == InitFetch /\ [][NextConcurrent]_vars

\* the positions of writes that wrote the key
WritesTo(key) == {i \in 1..Len(writes) : writes[i].key = key}
LastWriteTo(key) == CHOOSE i \in WritesTo(key) : \A j \in WritesTo(key) : j <= i

\* the documents the calls for the key have returned
Returned(key) ==
    UNION {DocsOf(callers[c].result.value) :
             c \in {x \in CallerIds : /\ callers[x].pc = "returned"
                                      /\ CacheKey(callers[x].address) = key}}

\* the call of caller c takes its next step
Proceeds(c) == NextConcurrent /\ callers'[c].pc # callers[c].pc

\* C20: no call raises; a call that returns a document returns one that a
\* source served to it or, on a cache hit, one that an earlier call wrote
\* for the address; a call under way can always take its next step,
\* wherever the other call stands; the entry of an address is the document
\* of the last write to it, which its writer returned, and the entry of an
\* address no call wrote is as it was.
C20_ConcurrentResolution ==
    /\ \A c \in CallerIds :
          /\ ~callers[c].result.threw
          /\ callers[c].abi.present => callers[c].abi.doc \in callers[c].sources
          /\ (callers[c].pc = "returned" /\ callers[c].result.value.present) =>
                \/ callers[c].result.value.doc \in callers[c].sources
                \/ \E i \in WritesTo(CacheKey(callers[c].address)) :
                        writes[i].doc = callers[c].result.value.doc
          /\ callers[c].wrote => callers[c].result.value.present
          /\ callers[c].pc \notin {"idle", "returned"} => ENABLED Proceeds(c)
    /\ \A k \in Keys :
          IF WritesTo(k) = {}
          THEN store[k] = NoEntry
          ELSE /\ store[k].present
               /\ store[k].json = JSONStringify(writes[LastWriteTo(k)].doc)
               /\ writes[LastWriteTo(k)].doc \in Returned(k)
               /\ callers[writes[LastWriteTo(k)].caller].result.value.doc
                     = writes[LastWriteTo(k)].doc

C20_Witness ==
    /\ \A c \in CallerIds : callers[c].pc = "returned" /\ callers[c].wrote
    /\ callers["first"].address # callers["second"].address
    /\ CacheKey(callers["first"].address) = CacheKey(callers["second"].address)
    /\ callers["first"].result # callers["second"].result
    /\ Len(writes) = 2
    /\ writes[1].caller = "second"
    /\ store[CacheKey(callers["first"].address)].json
          = JSONStringify(callers["first"].result.value.doc)

====
